---- MODULE Spec2Model ----
(***************************************************************************)
(* Model of maasserver/rpc/regionservice.py: the region RPC service        *)
(* (RegionService: the connection registry with its waiters), the          *)
(* server-side protocol (RegionServer: handshake, registration of a rack   *)
(* controller, loss of the connection), and the advertising of the regiond *)
(* processes in the database (RegionAdvertising).                          *)
(*                                                                         *)
(* The registry lives on the reactor thread, so every callback is one      *)
(* atomic action; an @inlineCallbacks method is split at the yields that   *)
(* really give control back to the reactor (a database call deferred to a  *)
(* thread, a remote call).                                                 *)
(***************************************************************************)
EXTENDS Integers, FiniteSets, Sequences, TLC

\* ------------------------------------------------------------------ bounds
\* Number of waiter Deferreds that getClientFor/getClientFromIdentifiers may
\* create in one behaviour.
MaxWaiters == 2
\* The longest timeout a caller passes, in ticks of the reactor clock.
MaxTimeout == 2
\* RegisterRackController requests received in one behaviour.
MaxRegs == 2

\* The rack controllers' system_ids, and the protocol instances (sessions).
Idents == {"r1", "r2"}
\* The factory builds them in this order, one for each inbound connection.
ConnSeq == <<"c1", "c2">>
Conns == {ConnSeq[n] : n \in 1..Len(ConnSeq)}
\* RegionServer.ident before any registration (class attribute, line 573).
None == "None"
IdentKeys == Idents \cup {None}
Waiters == 1..MaxWaiters
\* The shared secrets there are, the one get_shared_secret returns in this
\* process, the messages and the salts urandom(16) can draw.
Secrets == {"secret1", "secret2"}
SharedSecret == "secret1"
Messages == {"message1", "message2"}
SaltSeq == <<"salt1", "salt2">>
Salts == {SaltSeq[n] : n \in 1..Len(SaltSeq)}
Timeouts == 1..MaxTimeout

VARIABLES
    running,      \* RegionService.running (twisted Service)
    svc,          \* position of startService/stopService
    connections,  \* RegionService.connections: defaultdict(set)
    waiters,      \* RegionService.waiters: defaultdict(set)
    wt,           \* the waiter Deferreds made by deferWithTimeout
    conn,         \* the RegionServer instances
    regs,         \* number of RegisterRackController requests received
    fired,        \* the notifications fired by the last step (EventGroup)
    ret,          \* what the last call of a public method returned or raised
    rows,         \* RegionRackRPCConnection rows of this process's endpoint
    proc,         \* the regiond processes (operating-system pids)
    rec,          \* RegionControllerProcess rows, one for each process
    grade,        \* the "regiond" Service row of each region controller
    lock,         \* RegionAdvertising.lock of this process
    busy,         \* database calls running in this process's threads
    ads,          \* the RegionAdvertisingService of this process
    eps,          \* RegionControllerProcessEndpoint rows of this process
    bind,         \* RegionService._bindFirst of startService
    lease         \* the UpdateLease calls of one rack controller

\* The rows of the advertising tables and what guards them.
adv == <<proc, rec, grade, lock, busy, ads, eps>>

vars ==
    <<running, svc, connections, waiters, wt, conn, regs, fired, ret, rows,
      adv, bind, lease>>

\* ------------------------------------------------- defaultdict(set) helpers
\* d[k] of a defaultdict(set): the value read ...
DictGet(d, k) == IF k \in DOMAIN d THEN d[k] ELSE {}
\* ... and the dict afterwards: reading a missing key inserts it.
Touch(d, k) == [x \in DOMAIN d \cup {k} |-> DictGet(d, x)]
\* d[k] = v after d[k] was read.
DictSet(d, k, v) == [x \in DOMAIN d \cup {k} |-> IF x = k THEN v ELSE DictGet(d, x)]
\* The sessions held under any key.
AllSessions(d) == UNION {d[k] : k \in DOMAIN d}

EmptyDict == [k \in {} |-> {}]
\* ret: op is the method, arg its identifiers, err "ok", "waiting" (a waiter
\* w was returned) or the exception raised, val the connection of the
\* Client returned, all the connections of a list result by identifier.
NoRet ==
    [op |-> "none", arg |-> {}, err |-> "none", val |-> None, w |-> 0,
     all |-> EmptyDict]
\* A waiter Deferred: idents are the identifiers its callOut discards it
\* from and left the time until its delayed cancel is due, both dropped when
\* it fires; result/error what it fired with. calls counts the callback and
\* errback calls made on it, cause and at record what fired it and when
\* ("early": before its timeout has elapsed, "due": when it has).
NoWaiter ==
    [st |-> "unused", idents |-> {}, left |-> 0, result |-> None,
     error |-> "none", calls |-> 0, at |-> "none", cause |-> "none"]
\* A RegionServer: st the transport, auth the handshake, ident and
\* hostIsRemote the attributes, remote the kind of transport.getHost(),
\* pc/arg the _register call in progress and its system_id, unreg the
\* Deferred chain connectionLost starts to unregister the connection from
\* the database ("pending", then "done", or "logged" when it failed and its
\* errback logged the failure).
NewConn ==
    [st |-> "new", auth |-> "none", ident |-> None, remote |-> FALSE,
     hostIsRemote |-> FALSE, pc |-> "none", arg |-> None, unreg |-> "none"]

\* ------------------------------------------------------------ the waiters
\* deferWithTimeout(timeout): a Deferred cancelled by the reactor `timeout`
\* seconds from now.
deferWithTimeout(ids, timeout) ==
    [NoWaiter EXCEPT !.st = "pending", !.idents = ids, !.left = timeout]

\* A bug: the errback lets the CancelledError through.
cancelledPassedOn(failure) == failure

\* The errback added by getClientFor/getClientFromIdentifiers: a
\* CancelledError becomes NoConnectionsAvailable.
cancelled(failure) ==
    IF failure = "CancelledError" THEN "NoConnectionsAvailable" ELSE failure

\* A bug: the callOut is missing, the waiter stays in the sets.
discard_none(ws, ids, w) == [k \in DOMAIN ws \cup ids |-> DictGet(ws, k)]

\* A bug: the waiter is discarded from the set of one identifier only.
discard_first(ws, ids, w) ==
    [k \in DOMAIN ws \cup ids |->
        IF k = (CHOOSE i \in ids : TRUE) THEN DictGet(ws, k) \ {w}
        ELSE DictGet(ws, k)]

\* callOut(waiters.discard, d) / callOut(discard_all, waiters, identifiers, d):
\* the waiter leaves the set of every identifier it was added under.
discard_all(ws, ids, w) ==
    [k \in DOMAIN ws \cup ids |-> DictGet(ws, k) \ {w}]

\* Whether the waiter r fires before its timeout has elapsed or when it has.
When(r) == IF r.left > 0 THEN "early" ELSE "due"

\* waiter.callback(connection) on each waiter of the set `called`.
Callback(tab, called, c) ==
    [w \in Waiters |->
        IF w \notin called THEN tab[w]
        ELSE IF tab[w].st = "pending"
        THEN [tab[w] EXCEPT !.st = "fired", !.result = c, !.calls = @ + 1,
                            !.idents = {}, !.left = 0,
                            !.at = When(tab[w]), !.cause = "register"]
        ELSE [tab[w] EXCEPT !.calls = @ + 1]]

\* waiter.cancel() on each waiter of the set `called`: a Deferred that has
\* not fired fails with CancelledError, one that has fired ignores it.
Cancel(tab, called, why) ==
    [w \in Waiters |->
        IF w \in called /\ tab[w].st = "pending"
        THEN [tab[w] EXCEPT !.st = "failed", !.calls = @ + 1,
                            !.error = cancelled("CancelledError"),
                            !.idents = {}, !.left = 0,
                            !.at = When(tab[w]), !.cause = why]
        ELSE tab[w]]

\* The waiter sets after each waiter of `done` ran its callOut.
RECURSIVE DiscardDone(_, _, _)
DiscardDone(ws, tab, done) ==
    IF done = {} THEN ws
    ELSE LET w == CHOOSE x \in done : TRUE
         IN DiscardDone(discard_all(ws, tab[w].idents, w), tab, done \ {w})

\* ------------------------------------------------- registry: add and remove
\* A bug: only one of the waiters is called back.
addNotifiedOne(ws, ident) ==
    IF DictGet(ws, ident) = {} THEN {}
    ELSE {CHOOSE w \in DictGet(ws, ident) : TRUE}

\* A bug: the connection is not discarded.
removeNothing(cs, ident, c) == Touch(cs, ident)

\* RegionService._addConnectionFor: the connections afterwards ...
addConnectionFor(cs, ident, c) == DictSet(cs, ident, DictGet(cs, ident) \cup {c})
\* ... the waiters it calls back: all those waiting for ident ...
addNotified(ws, ident) == DictGet(ws, ident)
\* ... and the event it fires.
addEvents(ident) == << <<"connected", ident>> >>

\* RegionService._removeConnectionFor: the connections afterwards ...
removeConnectionFor(cs, ident, c) == DictSet(cs, ident, DictGet(cs, ident) \ {c})
\* ... and the event it fires, whether or not the connection was there.
removeEvents(cs, ident, c) == << <<"disconnected", ident>> >>

\* ------------------------------------------- the database mirror of a session
\* All the sessions of the model are accepted on the one endpoint of this
\* process, so a RegionRackRPCConnection row (endpoint, rack_controller) is
\* known by its rack controller.

\* A bug: the row is not written.
registerNothing(rs, ident) == rs

\* RegionAdvertising.registerConnection: get_or_create of the row.
registerConnection(rs, ident) == rs \cup {ident}

\* A bug: the row is not deleted.
unregisterNothing(rs, ident) == rs

\* RegionAdvertising.unregisterConnection: the rows of the endpoint for the
\* rack controller `ident` are deleted, if there are any.
unregisterConnection(rs, ident) == rs \ {ident}

\* A bug: connectionLost never unregisters from the database.
lostUnregistersNever(r) == "none"

\* RegionServer.connectionLost: for a remote host the chain that
\* unregisters the connection from the database is started.
lostUnregisters(r) == IF r.hostIsRemote THEN "pending" ELSE r.unreg

\* ------------------------------------------------------ the advertising data
\* The number of regiond processes expected on a region controller.
NUMBER_OF_REGIOND_PROCESSES == 4
\* The seconds between two updates of a RegionAdvertisingService that has
\* endpoints.
INTERVAL_WITH_ENDPOINTS == 60
\* The seconds between two updates of a RegionAdvertisingService that has
\* no endpoints, and the interval its LoopingCall is started with.
INTERVAL_NO_ENDPOINTS == 2
\* update removes the processes not updated for this many seconds.
TTL == 90
\* Ages of a RegionControllerProcess row are counted up to here, in seconds.
MaxAge == 120
\* The seconds that pass in one step of the clock: the interval of the
\* updates, or what is left of the TTL after one interval, so that rows
\* younger than the TTL, as old, and older are all met.
Elapse == {INTERVAL_WITH_ENDPOINTS, TTL - INTERVAL_WITH_ENDPOINTS}

\* The region controllers, and the regiond processes in the order they are
\* started: four on region controller A, one on B. Self is the process
\* whose RegionService and threads the model follows.
Regions == {"A", "B"}
ProcSeq == <<"a1", "a2", "a3", "a4", "b1">>
Procs == {ProcSeq[n] : n \in 1..Len(ProcSeq)}
RegionOf(p) == IF p = "b1" THEN "B" ELSE "A"
Self == "a1"
\* A RegionControllerProcess row: whether it is there, the seconds since
\* its `updated` field was written, and its id.
NoRec == [there |-> FALSE, age |-> 0, id |-> 0]
\* The id the database gives the row that get_or_create makes in the
\* promote of the process `self`, which its RegionAdvertising keeps as
\* self.process_id: every row made gets an id of its own.
process_id(self) == CHOOSE n \in 1..Len(ProcSeq) : ProcSeq[n] = self
\* The "regiond" Service row of a region controller: status, and for
\* DEGRADED the numbers its status_info names.
NoGrade == [status |-> "unknown", n |-> 0, of |-> 0]

\* The (address, port) pairs _getAddresses may give to update.
Addrs == {"addr1", "addr2"}
\* An address has an endpoint row created for it at most this many times.
MaxRows == 2
\* A RegionControllerProcessEndpoint row of this process: whether it is
\* there, and which of the rows created for its address it is.
NoEndpoint == [there |-> FALSE, gen |-> 0]
\* The RegionAdvertisingService after __init__: Service.running, the place
\* `starting` has reached in _tryPromote, the DeferredValue advertising,
\* the LoopingCall advertiser with its interval, the addresses given to the
\* update in flight, the place `stopping` has reached, what stopService has
\* raised, whether stopService was called before promote had worked, and
\* the seconds of the pause _tryPromote is in.
NoAds ==
    [run |-> FALSE, starting |-> "none", advertising |-> "unset",
     loop |-> "idle", interval |-> 0, addresses |-> {}, stopping |-> "none",
     err |-> "none", early |-> FALSE, pause |-> 0]

\* The seconds _tryPromote pauses for after RegionController.DoesNotExist
\* and after any other failure of promote.
PAUSE_NO_REGION == 1
PAUSE_FAILED == 5

\* The ports RegionService.__init__ makes its endpoints for:
\* range(FIRST_PORT, END_PORT).
FIRST_PORT == 5250
END_PORT == 5260
\* RegionService.endpoints[0], the endpoints _bindFirst is given.
endpoint_options == [n \in 1..(END_PORT - FIRST_PORT) |-> FIRST_PORT + n - 1]
\* What endpoint.listen may raise.
ListenErrors == {"CannotListenError", "OSError"}
\* _bindFirst before startService: the result of listen for each endpoint
\* tried, the port kept, the error raised.
NoBind == [st |-> "none", tried |-> <<>>, port |-> 0, err |-> <<>>]

\* The rack controller sends at most this many lease updates.
MaxLeases == 4
\* The regiond processes the rack controller is connected to.
LeaseProcs == {"a1", "b1"}
\* The lease updates: the number sent, the database-tasks queue of each
\* regiond process, the updates handled in the order they were handled, and
\* the updates whose response has been returned.
NoLease ==
    [sent |-> 0, queue |-> [p \in LeaseProcs |-> <<>>], applied |-> <<>>,
     replied |-> {}]

\* ------------------------------------------------------------------- Init
Init ==
    /\ running = FALSE
    /\ svc = "new"
    /\ connections = EmptyDict
    /\ waiters = EmptyDict
    /\ wt = [w \in Waiters |-> NoWaiter]
    /\ conn = [c \in Conns |-> NewConn]
    /\ regs = 0
    /\ fired = <<>>
    /\ ret = NoRet
    /\ rows = {}
    /\ proc = [p \in Procs |-> "new"]
    /\ rec = [p \in Procs |-> NoRec]
    /\ grade = [r \in Regions |-> NoGrade]
    /\ lock = "free"
    /\ busy = {}
    /\ ads = NoAds
    /\ eps = [x \in Addrs |-> NoEndpoint]
    /\ bind = NoBind
    /\ lease = NoLease

\* The next unused waiter Deferred.
FreeWaiters == {w \in Waiters : wt[w].st = "unused"}
NextWaiter == CHOOSE w \in FreeWaiters : \A v \in FreeWaiters : w <= v

\* --------------------------------------------------- RegionService service
\* RegionService.startService: Service.startService sets running, and
\* _bindFirst starts to listen on the first of the endpoints.
StartService ==
    /\ svc = "new"
    /\ svc' = "running"
    /\ running' = TRUE
    /\ bind' = [NoBind EXCEPT !.st = "binding"]
    /\ fired' = <<>>
    /\ ret' = NoRet
    /\ UNCHANGED <<connections, waiters, wt, conn, regs, rows, adv, lease>>

\* RegionService.stopService up to `yield port.stopListening()`.
StopServiceBegin ==
    /\ svc = "running"
    /\ svc' = "stopping"
    /\ fired' = <<>>
    /\ ret' = NoRet
    /\ UNCHANGED <<running, connections, waiters, wt, conn, regs, rows, adv, bind, lease>>

\* transport.loseConnection(): an open transport starts closing.
loseConnection(r) == IF r.st = "open" THEN [r EXCEPT !.st = "closing"] ELSE r

\* A bug: only the waiters of one identifier are cancelled.
stopCancelledFirst(ws) ==
    IF DOMAIN ws = {} THEN {} ELSE ws[CHOOSE k \in DOMAIN ws : TRUE]

\* The waiters RegionService.stopService cancels: those of every identifier.
stopCancelled(ws) == UNION {ws[k] : k \in DOMAIN ws}

\* RegionService.stopService when `yield port.stopListening()` raises: the
\* exception leaves stopService, whose remaining statements do not run.
StopListeningFailed ==
    /\ svc = "stopping"
    /\ svc' = "failed"
    /\ fired' = <<>>
    /\ ret' = [NoRet EXCEPT !.op = "stopService", !.err = "Failure"]
    /\ UNCHANGED <<running, connections, waiters, wt, conn, regs, rows, adv, bind, lease>>

\* RegionService.stopService after the ports have stopped: every waiter is
\* cancelled, every registered connection is told to close, and
\* Service.stopService clears running.
StopServiceFinish ==
    /\ svc = "stopping"
    /\ LET pending == stopCancelled(waiters)
       IN /\ wt' = Cancel(wt, pending, "stop")
          /\ waiters' = DiscardDone(waiters, wt, pending)
    /\ conn' = [c \in Conns |->
                  IF c \in AllSessions(connections)
                  THEN loseConnection(conn[c]) ELSE conn[c]]
    /\ svc' = "stopped"
    /\ running' = FALSE
    /\ fired' = <<>>
    /\ ret' = NoRet
    /\ UNCHANGED <<connections, regs, rows, adv, bind, lease>>

\* ------------------------------------------------------------ RegionServer
\* A bug: the handshake starts whether the service runs or not.
connectionMadeAlways(r, isRunning, remote) ==
    [r EXCEPT !.st = "open", !.auth = "pending", !.remote = remote]

\* RegionServer.connectionMade on the connection record r: the handshake
\* starts if the service runs, otherwise the transport is closed. `remote`
\* is whether transport.getHost() is an IPv4Address/IPv6Address.
connectionMade(r, isRunning, remote) ==
    IF isRunning
    THEN [r EXCEPT !.st = "open", !.auth = "pending", !.remote = remote]
    ELSE [r EXCEPT !.st = "closing", !.remote = remote]

ConnectionMade(c, remote) ==
    /\ conn[c].st = "new"
    /\ \A n \in 1..Len(ConnSeq) :
          ConnSeq[n] = c => \A m \in 1..(n - 1) : conn[ConnSeq[m]].st # "new"
    /\ conn' = [conn EXCEPT ![c] = connectionMade(@, running, remote)]
    /\ fired' = <<>>
    /\ ret' = NoRet
    /\ UNCHANGED <<running, svc, connections, waiters, wt, regs, rows, adv, bind, lease>>

\* calculate_digest(secret, message, salt): a keyed digest, taken to differ
\* whenever the secret, the message or the salt does.
calculate_digest(secret, message, salt) == <<secret, message, salt>>

\* Region.authenticate, the responder to Authenticate, run by a peer that
\* holds `secret` and draws `salt`.
authenticate(secret, message, salt) ==
    [digest |-> calculate_digest(secret, message, salt), salt |-> salt]

\* A bug: the local digest is not made with the salt of the response.
authenticateClusterOwnSalt(secret, message, response) ==
    response.digest = calculate_digest(secret, message, SaltSeq[1])

\* RegionServer.authenticateCluster once the peer has answered the message:
\* the digest of the response is compared with the digest made locally
\* from the shared secret, the message and the salt of the response.
authenticateCluster(secret, message, response) ==
    response.digest = calculate_digest(secret, message, response.salt)

\* RegionServer.performHandshake when authenticateCluster returns: the
\* message was drawn, and a peer that holds the secret `peer` has answered
\* it with the salt it drew. The transport is closed when the digests
\* differ.
HandshakeDone(c, peer, message, salt) ==
    /\ conn[c].st = "open"
    /\ conn[c].auth = "pending"
    /\ LET authenticated ==
               authenticateCluster(SharedSecret, message,
                                   authenticate(peer, message, salt))
       IN /\ conn' = [conn EXCEPT ![c] =
                  IF authenticated THEN [@ EXCEPT !.auth = "ok"]
                  ELSE loseConnection([@ EXCEPT !.auth = "failed"])]
          /\ ret' = [NoRet EXCEPT !.op = "authenticateCluster", !.val = c,
                                  !.arg = {peer},
                                  !.err = IF authenticated THEN "ok"
                                          ELSE "rejected"]
    /\ fired' = <<>>
    /\ UNCHANGED <<running, svc, connections, waiters, wt, regs, rows, adv, bind, lease>>

\* RegionServer.handshakeFailed: authenticateCluster has raised something
\* other than ConnectionClosed, which is logged, and the transport is
\* closed.
HandshakeFailed(c) ==
    /\ conn[c].st = "open"
    /\ conn[c].auth = "pending"
    /\ conn' = [conn EXCEPT ![c] = loseConnection([@ EXCEPT !.auth = "failed"])]
    /\ fired' = <<>>
    /\ ret' = NoRet
    /\ UNCHANGED <<running, svc, connections, waiters, wt, regs, rows, adv, bind, lease>>

\* RegionServer.register / _register up to the first database call
\* (rackcontrollers.register deferred to a thread).
RegisterRequest(c, sysid) ==
    /\ conn[c].st = "open"
    /\ conn[c].pc = "none"
    /\ regs < MaxRegs
    /\ regs' = regs + 1
    /\ conn' = [conn EXCEPT ![c] = [@ EXCEPT !.pc = "db", !.arg = sysid]]
    /\ fired' = <<>>
    /\ ret' = NoRet
    /\ UNCHANGED <<running, svc, connections, waiters, wt, rows, adv, bind, lease>>

\* What _register answers to the register request in progress on c.
Answer(c, err) ==
    [NoRet EXCEPT !.op = "register", !.arg = {conn[c].arg}, !.err = err, !.val = c]

\* The `except:` clause of _register: the connection is removed under the
\* ident the protocol has now, and CannotRegisterRackController is raised.
RegisterFailed(c) ==
    /\ connections' = removeConnectionFor(connections, conn[c].ident, c)
    /\ fired' = removeEvents(connections, conn[c].ident, c)
    /\ conn' = [conn EXCEPT ![c] = [@ EXCEPT !.pc = "none", !.arg = None]]
    /\ ret' = Answer(c, "CannotRegisterRackController")
    /\ UNCHANGED <<waiters, wt>>

\* RegionServer.initResponder up to its first yield: ident is set, the
\* connection is added (which calls back the waiters), and for a remote
\* host the database mirroring is started.
InitResponder(c) ==
    LET ident == conn[c].arg
        called == addNotified(waiters, ident)
    IN /\ connections' = addConnectionFor(connections, ident, c)
       /\ wt' = Callback(wt, called, c)
       /\ waiters' = DiscardDone(waiters, wt, called)
       /\ fired' = addEvents(ident)
       /\ conn' = [conn EXCEPT ![c] =
               [@ EXCEPT !.ident = ident, !.hostIsRemote = conn[c].remote,
                         !.pc = IF conn[c].remote THEN "mirror" ELSE "none",
                         !.arg = IF conn[c].remote THEN ident ELSE None]]
       /\ ret' = IF conn[c].remote THEN NoRet ELSE Answer(c, "ok")

\* initResponder on a protocol whose connection is lost already: the
\* protocol has no transport any more and self.transport.getHost() raises,
\* after the connection has been added and the waiters called back; the
\* `except:` clause of _register then removes it.
InitResponderNoHost(c) ==
    LET ident == conn[c].arg
        called == addNotified(waiters, ident)
        added == addConnectionFor(connections, ident, c)
    IN /\ connections' = removeConnectionFor(added, ident, c)
       /\ wt' = Callback(wt, called, c)
       /\ waiters' = DiscardDone(waiters, wt, called)
       /\ fired' = addEvents(ident) \o removeEvents(added, ident, c)
       /\ conn' = [conn EXCEPT ![c] =
               [@ EXCEPT !.ident = ident, !.pc = "none", !.arg = None]]
       /\ ret' = Answer(c, "CannotRegisterRackController")

\* _register when rackcontrollers.register (and handle_upgrade) return
\* ("ok"; "nohost" when initResponder then finds no transport) or raise
\* ("fail").
RegisterDbDone(c, res) ==
    /\ conn[c].pc = "db"
    /\ CASE res = "ok" -> conn[c].st # "closed" /\ InitResponder(c)
         [] res = "nohost" -> conn[c].st = "closed" /\ InitResponderNoHost(c)
         [] OTHER -> RegisterFailed(c)
    /\ UNCHANGED <<running, svc, regs, rows, adv, bind, lease>>

\* initResponder's advertising.get(), getRegionProcess and
\* registerConnection return, the row of rack_controller being written, or
\* raise; _register answers.
MirrorDone(c, ok) ==
    /\ conn[c].pc = "mirror"
    /\ IF ok
       THEN /\ rows' = registerConnection(rows, conn[c].arg)
            /\ conn' = [conn EXCEPT ![c] = [@ EXCEPT !.pc = "none", !.arg = None]]
            /\ ret' = Answer(c, "ok")
            /\ fired' = <<>>
            /\ UNCHANGED <<connections, waiters, wt>>
       ELSE /\ RegisterFailed(c)
            /\ UNCHANGED rows
    /\ UNCHANGED <<running, svc, regs, adv, bind, lease>>

\* RegionServer.connectionLost: for a remote host the unregistration from
\* the database is started, and the connection is removed under the ident
\* the protocol has now.
ConnectionLost(c) ==
    /\ conn[c].st \in {"open", "closing"}
    /\ connections' = removeConnectionFor(connections, conn[c].ident, c)
    /\ fired' = removeEvents(connections, conn[c].ident, c)
    /\ conn' = [conn EXCEPT ![c] =
            [@ EXCEPT !.st = "closed",
                      !.auth = IF @ = "pending" THEN "failed" ELSE @,
                      !.unreg = lostUnregisters(conn[c])]]
    /\ ret' = NoRet
    /\ UNCHANGED <<running, svc, waiters, wt, regs, rows, adv, bind, lease>>

\* The chain started by connectionLost ends: advertising.get(), get_process
\* and unregister ran and the row of (self.host, self.ident) is deleted
\* (ok), or one of them failed and the errback logged the failure. ret
\* tells the rows deleted.
UnregisterDone(c, ok) ==
    /\ conn[c].unreg = "pending"
    /\ rows' = IF ok THEN unregisterConnection(rows, conn[c].ident) ELSE rows
    /\ conn' = [conn EXCEPT ![c] =
            [@ EXCEPT !.unreg = IF ok THEN "done" ELSE "logged"]]
    /\ fired' = <<>>
    /\ ret' = [NoRet EXCEPT !.op = "unregisterConnection", !.val = c,
                            !.arg = rows \ rows',
                            !.err = IF ok THEN "ok" ELSE "logged"]
    /\ UNCHANGED <<running, svc, connections, waiters, wt, regs, adv, bind, lease>>

\* ------------------------------------------- RegionService: the public gets
\* A new waiter for the identifiers ids: _getConnectionFor's and
\* _getConnectionFromIdentifiers' branch without connections.
NewWaiter(op, ids, timeout) ==
    /\ FreeWaiters # {}
    /\ LET w == NextWaiter
       IN /\ wt' = [wt EXCEPT ![w] = deferWithTimeout(ids, timeout)]
          /\ waiters' = [k \in DOMAIN waiters \cup ids |->
                            IF k \in ids THEN DictGet(waiters, k) \cup {w}
                            ELSE waiters[k]]
          /\ ret' = [NoRet EXCEPT !.op = op, !.arg = ids, !.err = "waiting", !.w = w]

\* A bug: the connection is not picked at random.
getConnectionForFirst(cs, ident) ==
    {CHOOSE c \in DictGet(cs, ident) :
        \A n, m \in 1..Len(ConnSeq) :
            (ConnSeq[n] = c /\ ConnSeq[m] \in DictGet(cs, ident)) => n <= m}

\* _getConnectionFor with connections for ident: the connections
\* random.choice(conns) can pick.
getConnectionFor(cs, ident) == DictGet(cs, ident)

\* RegionService.getClientFor(system_id, timeout) / _getConnectionFor.
GetClientFor(ident, timeout) ==
    /\ connections' = Touch(connections, ident)
    /\ IF DictGet(connections, ident) = {}
       THEN NewWaiter("get", {ident}, timeout)
       ELSE /\ \E c \in getConnectionFor(connections, ident) :
                  ret' = [NoRet EXCEPT !.op = "get", !.arg = {ident},
                                       !.err = "ok", !.val = c]
            /\ UNCHANGED <<waiters, wt>>
    /\ fired' = <<>>
    /\ UNCHANGED <<running, svc, conn, regs, rows, adv, bind, lease>>

\* A bug: the identifiers asked for are not looked at.
matched_connectionsAny(cs, ids) ==
    LET have == {i \in DOMAIN cs : cs[i] # {}}
    IN {f \in [have -> Conns] : \A i \in have : f[i] \in cs[i]}

\* The lists _getConnectionFromIdentifiers can build: one connection,
\* picked at random, for each identifier that has some.
matched_connections(cs, ids) ==
    LET have == {i \in ids : DictGet(cs, i) # {}}
    IN {f \in [have -> Conns] : \A i \in have : f[i] \in cs[i]}

\* RegionService.getClientFromIdentifiers(identifiers, timeout).
GetClientFromIdentifiers(ids, timeout) ==
    /\ connections' = [k \in DOMAIN connections \cup ids |-> DictGet(connections, k)]
    /\ IF \A i \in ids : DictGet(connections, i) = {}
       THEN NewWaiter("getAny", ids, timeout)
       ELSE /\ \E f \in matched_connections(connections, ids) :
                  \E i \in DOMAIN f :
                     ret' = [NoRet EXCEPT !.op = "getAny", !.arg = ids,
                                          !.err = "ok", !.val = f[i], !.all = f]
            /\ UNCHANGED <<waiters, wt>>
    /\ fired' = <<>>
    /\ UNCHANGED <<running, svc, conn, regs, rows, adv, bind, lease>>

\* The reactor runs the delayed d.cancel of deferWithTimeout.
TimeoutFires(w) ==
    /\ wt[w].st = "pending"
    /\ wt[w].left = 0
    /\ wt' = Cancel(wt, {w}, "timeout")
    /\ waiters' = DiscardDone(waiters, wt, {w})
    /\ fired' = <<>>
    /\ ret' = NoRet
    /\ UNCHANGED <<running, svc, connections, conn, regs, rows, adv, bind, lease>>

\* The caller cancels the Deferred it was given.
CancelWaiter(w) ==
    /\ wt[w].st = "pending"
    /\ wt' = Cancel(wt, {w}, "cancel")
    /\ waiters' = DiscardDone(waiters, wt, {w})
    /\ fired' = <<>>
    /\ ret' = NoRet
    /\ UNCHANGED <<running, svc, connections, conn, regs, rows, adv, bind, lease>>

\* Time passes, once the delayed calls that are due have run.
Tick ==
    /\ \E w \in Waiters : wt[w].st = "pending"
    /\ \A w \in Waiters : wt[w].st = "pending" => wt[w].left > 0
    /\ wt' = [w \in Waiters |->
                IF wt[w].st = "pending" THEN [wt[w] EXCEPT !.left = @ - 1]
                ELSE wt[w]]
    /\ fired' = <<>>
    /\ ret' = NoRet
    /\ UNCHANGED <<running, svc, connections, waiters, conn, regs, rows, adv, bind, lease>>

\* A bug: the empty sets are not skipped, and random.choice raises on one.
getAllClientsUnfiltered(cs) ==
    IF \E k \in DOMAIN cs : cs[k] = {}
    THEN {[NoRet EXCEPT !.op = "getAll", !.err = "IndexError"]}
    ELSE {[NoRet EXCEPT !.op = "getAll", !.err = "ok", !.all = f] :
            f \in {g \in [DOMAIN cs -> Conns] : \A k \in DOMAIN cs : g[k] \in cs[k]}}

\* What getAllClients can return: a connection, picked at random, for each
\* value of the dict that is not empty.
getAllClients(cs) ==
    LET have == {k \in DOMAIN cs : Cardinality(cs[k]) > 0}
    IN {[NoRet EXCEPT !.op = "getAll", !.err = "ok", !.all = f] :
            f \in {g \in [have -> Conns] : \A k \in have : g[k] \in cs[k]}}

\* RegionService.getAllClients().
GetAllClients ==
    /\ ret' \in getAllClients(connections)
    /\ fired' = <<>>
    /\ UNCHANGED <<running, svc, connections, waiters, wt, conn, regs,
                 rows, adv, bind, lease>>

\* What getRandomClient can do: raise NoConnectionsAvailable when the dict
\* has no key; otherwise pick one of the dict's values at random and fail
\* its assertion when that set is empty, or return one of its connections.
getRandomClient(cs) ==
    IF Cardinality(DOMAIN cs) = 0
    THEN {[NoRet EXCEPT !.op = "getRandom", !.err = "NoConnectionsAvailable"]}
    ELSE UNION {
        IF cs[k] = {}
        THEN {[NoRet EXCEPT !.op = "getRandom", !.err = "AssertionError"]}
        ELSE {[NoRet EXCEPT !.op = "getRandom", !.err = "ok", !.val = c] :
                c \in cs[k]}
        : k \in DOMAIN cs}

\* RegionService.getRandomClient().
GetRandomClient ==
    /\ ret' \in getRandomClient(connections)
    /\ fired' = <<>>
    /\ UNCHANGED <<running, svc, connections, waiters, wt, conn, regs,
                 rows, adv, bind, lease>>

\* ------------------------------------------------------- RegionAdvertising
\* The processes that have a RegionControllerProcess row.
Present(rs) == {p \in Procs : rs[p].there}

\* RegionAdvertising.promote: get_or_create of the row of this process.
promote(rs, self) ==
    [rs EXCEPT ![self] =
        IF @.there THEN @
        ELSE [there |-> TRUE, age |-> 0, id |-> process_id(self)]]

\* A bug: the row created again is given a new id by the database.
getRegionProcessNewId(rs, self) ==
    [rs EXCEPT ![self] =
        IF @.there THEN [@ EXCEPT !.age = 0]
        ELSE [there |-> TRUE, age |-> 0, id |-> Len(ProcSeq) + process_id(self)]]

\* RegionAdvertising.getRegionProcess: the row with the id self.process_id
\* has its `updated` field written, or is created again with that id when
\* it has been deleted.
getRegionProcess(rs, self) ==
    [rs EXCEPT ![self] =
        IF @.there THEN [@ EXCEPT !.age = 0]
        ELSE [there |-> TRUE, age |-> 0, id |-> process_id(self)]]

\* A bug: only the old rows of this region controller are removed.
removeOldOwnRegion(rs, self) ==
    [p \in Procs |->
        IF rs[p].there /\ rs[p].age >= TTL /\ RegionOf(p) = RegionOf(self)
        THEN NoRec ELSE rs[p]]

\* update: the rows whose `updated` is at or before now - 90 seconds are
\* deleted, whichever region controller they belong to.
removeOld(rs, self) ==
    [p \in Procs |-> IF rs[p].there /\ rs[p].age >= TTL THEN NoRec ELSE rs[p]]

\* A bug: the rows of the siblings are left to the TTL.
removeSiblingsNever(rs, pr, self) == rs

\* A bug: the pid of every other row is looked up, whichever region
\* controller the row belongs to.
removeSiblingsAnyRegion(rs, pr, self) ==
    [p \in Procs |->
        IF rs[p].there /\ p # self /\ pr[p] # "running"
        THEN NoRec ELSE rs[p]]

\* update: the rows of the other processes of this region controller whose
\* pid is_pid_running does not find are deleted.
removeSiblings(rs, pr, self) ==
    [p \in Procs |->
        IF /\ rs[p].there
           /\ RegionOf(p) = RegionOf(self)
           /\ p # self
           /\ pr[p] # "running"
        THEN NoRec ELSE rs[p]]

\* The rows after the garbage collection of update.
collected(rs, pr, self) ==
    removeSiblings(removeOld(getRegionProcess(rs, self), self), pr, self)

\* The rows an update deletes, each with the rule that deletes it.
deleted(rs, pr, self) ==
    LET old == removeOld(getRegionProcess(rs, self), self)
        end == collected(rs, pr, self)
    IN [p \in {x \in Procs : rs[x].there /\ ~end[x].there} |->
            IF old[p].there THEN "pid" ELSE "ttl"]

\* The endpoint rows that are there.
Endpoints(es) == {x \in Addrs : es[x].there}

\* The endpoint rows of this process go with its RegionControllerProcess
\* row when that is deleted.
cascade(es, rs) ==
    IF rs[Self].there THEN es
    ELSE [x \in Addrs |-> [es[x] EXCEPT !.there = FALSE]]

\* A bug: every endpoint row is deleted and the addresses are inserted anew.
updateEndpointsReplaced(es, addresses) ==
    [x \in Addrs |->
        IF x \in addresses THEN [there |-> TRUE, gen |-> es[x].gen + 1]
        ELSE [es[x] EXCEPT !.there = FALSE]]

\* update: get_or_create of an endpoint row for each address; the previous
\* rows that no address names are deleted.
updateEndpoints(es, addresses) ==
    [x \in Addrs |->
        IF x \in addresses
        THEN IF es[x].there THEN es[x]
             ELSE [there |-> TRUE, gen |-> es[x].gen + 1]
        ELSE [es[x] EXCEPT !.there = FALSE]]

\* A bug: the two intervals are taken for each other.
intervalSwapped(addresses) ==
    IF addresses = {} THEN INTERVAL_WITH_ENDPOINTS ELSE INTERVAL_NO_ENDPOINTS

\* update: the interval it returns.
interval(addresses) ==
    IF addresses = {} THEN INTERVAL_NO_ENDPOINTS ELSE INTERVAL_WITH_ENDPOINTS

\* RegionControllerProcess.objects.filter(region=region_obj).count().
number_of_processes(rs, region) ==
    Cardinality({p \in Present(rs) : RegionOf(p) = region})

\* A bug: a region controller with all its processes is degraded still.
regiondStatusShort(n) ==
    IF NUMBER_OF_REGIOND_PROCESSES - n >= 0
    THEN [status |-> "degraded", n |-> n, of |-> NUMBER_OF_REGIOND_PROCESSES]
    ELSE [status |-> "running", n |-> 0, of |-> 0]

\* update: the status of the regiond service of this region controller,
\* from the number of its processes; status_info names the number running
\* and the number expected.
regiondStatus(n) ==
    IF NUMBER_OF_REGIOND_PROCESSES - n > 0
    THEN [status |-> "degraded", n |-> n, of |-> NUMBER_OF_REGIOND_PROCESSES]
    ELSE [status |-> "running", n |-> 0, of |-> 0]

\* A bug: the region controllers without a process are left as they were.
gradedNoDead(gr, rs, self) ==
    [r \in Regions |->
        IF r = RegionOf(self) THEN regiondStatus(number_of_processes(rs, r))
        ELSE gr[r]]

\* update: the Service rows afterwards. The other region controllers are
\* marked dead when they have no process, and left alone otherwise.
graded(gr, rs, self) ==
    [r \in Regions |->
        IF r = RegionOf(self) THEN regiondStatus(number_of_processes(rs, r))
        ELSE IF number_of_processes(rs, r) = 0
        THEN [status |-> "dead", n |-> 0, of |-> 0]
        ELSE gr[r]]

\* RegionAdvertising.update run by the process `self` with the given
\* addresses, in one transaction. The endpoint rows the model follows are
\* those of this process.
update(self, addresses) ==
    /\ rec' = collected(rec, proc, self)
    /\ grade' = graded(grade, collected(rec, proc, self), self)
    /\ eps' = IF self = Self THEN updateEndpoints(eps, addresses)
              ELSE cascade(eps, collected(rec, proc, self))
    /\ ret' = [NoRet EXCEPT !.op = "update", !.arg = {self}, !.err = "ok",
                            !.val = IF rec[self].there THEN "saved"
                                    ELSE "created",
                            !.all = deleted(rec, proc, self)]

\* RegionAdvertising.demote run by the process `self`: objects.get raises
\* DoesNotExist when the row is not there, and the row is deleted otherwise.
demote(rs, self) ==
    IF rs[self].there
    THEN [rec |-> [rs EXCEPT ![self] = NoRec], err |-> "ok"]
    ELSE [rec |-> rs, err |-> "DoesNotExist"]

\* What the model leaves alone in a step of the advertising.
service ==
    <<running, svc, connections, waiters, wt, conn, regs, rows, bind, lease>>

\* Another regiond process starts and RegionAdvertising.promote creates its
\* row. The processes of a region controller are started in order.
Promote(p) ==
    /\ p # Self
    /\ proc[p] = "new"
    /\ \A n \in 1..Len(ProcSeq) :
          ProcSeq[n] = p =>
              \A m \in 1..(n - 1) :
                  RegionOf(ProcSeq[m]) = RegionOf(p) => proc[ProcSeq[m]] # "new"
    /\ proc' = [proc EXCEPT ![p] = "running"]
    /\ rec' = promote(rec, p)
    /\ fired' = <<>>
    /\ ret' = NoRet
    /\ UNCHANGED <<service, grade, lock, busy, ads, eps>>

\* A regiond process dies without demoting itself; its row stays.
Kill(p) ==
    /\ proc[p] = "running"
    /\ p = Self => busy = {}
    /\ proc' = [proc EXCEPT ![p] = "dead"]
    /\ fired' = <<>>
    /\ ret' = NoRet
    /\ UNCHANGED <<service, rec, grade, lock, busy, ads, eps>>

\* Another regiond process stops: RegionAdvertising.demote deletes its row,
\* or raises when the row is not there, which _tryDemote logs.
Demote(p) ==
    /\ p # Self
    /\ proc[p] = "running"
    /\ proc' = [proc EXCEPT ![p] = "dead"]
    /\ rec' = demote(rec, p).rec
    /\ fired' = <<>>
    /\ ret' = [NoRet EXCEPT !.op = "demote", !.arg = {p},
                            !.err = demote(rec, p).err]
    /\ UNCHANGED <<service, grade, lock, busy, ads, eps>>

\* Time passes: every row is dt seconds older.
Pass(dt) ==
    /\ \E p \in Present(rec) : rec[p].age < MaxAge
    /\ rec' = [p \in Procs |->
                 IF rec[p].there /\ rec[p].age + dt <= MaxAge
                 THEN [rec[p] EXCEPT !.age = @ + dt]
                 ELSE IF rec[p].there THEN [rec[p] EXCEPT !.age = MaxAge]
                 ELSE rec[p]]
    /\ fired' = <<>>
    /\ ret' = NoRet
    /\ UNCHANGED <<service, proc, grade, lock, busy, ads, eps>>

\* The update of another regiond process, in its own transaction.
PeerUpdate(p) ==
    /\ p # Self
    /\ proc[p] = "running"
    /\ update(p, {})
    /\ fired' = <<>>
    /\ UNCHANGED <<service, proc, lock, busy, ads>>

\* ------------------------------------------------ RegionAdvertisingService
\* _tryDemote: demote is deferred to the database when advertising holds a
\* RegionAdvertising; a failed advertising is ignored or logged.
tryDemote(a) == IF a.advertising = "set" THEN "demoting" ELSE "done"

\* stopService from _stopAdvertising on: a running LoopingCall is stopped,
\* at once when it waits for its next call and after the call when one is
\* in flight; then _tryDemote.
stopAdvertising(a) ==
    IF a.loop = "waiting"
    THEN [a EXCEPT !.loop = "stopped", !.stopping = tryDemote(a)]
    ELSE IF a.loop = "ticking"
    THEN [a EXCEPT !.loop = "stopping", !.stopping = "waitLoop"]
    ELSE [a EXCEPT !.stopping = tryDemote(a)]

\* The callbacks of `starting` have run: stopService goes on when it waits.
started(a) == IF a.stopping = "waitStart" THEN stopAdvertising(a) ELSE a

\* RegionAdvertisingService.startService in this process: running is set
\* and _tryPromote defers promote to the database.
AdsStart ==
    /\ proc[Self] = "new"
    /\ ads.starting = "none"
    /\ proc' = [proc EXCEPT ![Self] = "running"]
    /\ ads' = [ads EXCEPT !.run = TRUE, !.starting = "promoting"]
    /\ fired' = <<>>
    /\ ret' = NoRet
    /\ UNCHANGED <<service, rec, grade, lock, busy, eps>>

\* A bug: the two pauses are swapped.
pauseForSwapped(res) ==
    IF res = "DoesNotExist" THEN PAUSE_FAILED ELSE PAUSE_NO_REGION

\* The pause of _tryPromote after promote has raised `res`.
pauseFor(res) ==
    IF res = "DoesNotExist" THEN PAUSE_NO_REGION ELSE PAUSE_FAILED

\* promote returns in _tryPromote. When it has raised, _tryPromote pauses.
\* When it has not, _tryPromote returns its RegionAdvertising whatever
\* running is by now: _promotionOkay sets advertising, _startAdvertising
\* starts the LoopingCall with INTERVAL_NO_ENDPOINTS, and the LoopingCall
\* calls _tryUpdate at once, which defers update with the addresses of
\* _getAddresses to the database.
PromoteDone(res, addresses) ==
    /\ proc[Self] = "running"
    /\ ads.starting = "promoting"
    /\ lock = "free"
    /\ IF res = "ok"
       THEN /\ rec' = promote(rec, Self)
            /\ ads' = started([ads EXCEPT !.starting = "done",
                                          !.advertising = "set",
                                          !.loop = "ticking",
                                          !.interval = INTERVAL_NO_ENDPOINTS,
                                          !.addresses = addresses])
            /\ lock' = "update"
            /\ busy' = busy \cup {"update"}
       ELSE /\ ads' = [ads EXCEPT !.starting = "pausing",
                                   !.pause = pauseFor(res)]
            /\ UNCHANGED <<rec, lock, busy>>
    /\ fired' = <<>>
    /\ ret' = [NoRet EXCEPT !.op = "promote", !.arg = {Self}, !.val = res,
                            !.err = IF res = "ok" THEN "ok" ELSE "logged"]
    /\ UNCHANGED <<service, proc, grade, eps>>

\* The pause of _tryPromote ends: promote is tried again while the service
\* runs; when it does not, CancelledError is raised, _promotionFailed fails
\* advertising, and ignoreCancellation ends `starting`.
PauseDone ==
    /\ proc[Self] = "running"
    /\ ads.starting = "pausing"
    /\ ads' = IF ads.run THEN [ads EXCEPT !.starting = "promoting", !.pause = 0]
              ELSE started([ads EXCEPT !.starting = "done", !.pause = 0,
                                       !.advertising = "failed"])
    /\ fired' = <<>>
    /\ ret' = NoRet
    /\ UNCHANGED <<service, proc, rec, grade, lock, busy, eps>>

\* RegionAdvertisingService._tryUpdate, called by the LoopingCall when the
\* interval has passed: update is deferred to the database with the
\* addresses of _getAddresses, and a database thread enters update, which
\* is @synchronised(lock).
UpdateBegin(addresses) ==
    /\ proc[Self] = "running"
    /\ ads.loop = "waiting"
    /\ lock = "free"
    /\ ads' = [ads EXCEPT !.loop = "ticking", !.addresses = addresses]
    /\ lock' = "update"
    /\ busy' = busy \cup {"update"}
    /\ fired' = <<>>
    /\ ret' = NoRet
    /\ UNCHANGED <<service, proc, rec, grade, eps>>

\* _tryUpdate when _getAddresses raises: the errbacks of _tryUpdate log the
\* failure and the LoopingCall waits for its next call.
AddressesFailed ==
    /\ proc[Self] = "running"
    /\ ads.loop = "waiting"
    /\ fired' = <<>>
    /\ ret' = [NoRet EXCEPT !.op = "update", !.arg = {Self}, !.err = "logged"]
    /\ UNCHANGED <<service, adv>>

\* _tryUpdate.setInterval: the callback that sets the interval of the
\* LoopingCall is skipped when update has failed.
setInterval(iv, ok, addresses) == IF ok THEN interval(addresses) ELSE iv

\* A bug: the LoopingCall ends with the first update that fails.
loopAfterStopsOnFailure(l, ok) ==
    IF l = "stopping" \/ ~ok THEN "stopped" ELSE "waiting"

\* The LoopingCall after a call of _tryUpdate, whose Deferred never fails:
\* the next call is scheduled unless the loop has been stopped.
loopAfter(l, ok) == IF l = "stopping" THEN "stopped" ELSE "waiting"

\* update commits (ok) or raises and is rolled back; the lock is released,
\* _tryUpdate sets the interval or logs the failure, and a stopService that
\* waits for the LoopingCall goes on to _tryDemote.
UpdateEnd(ok) ==
    /\ "update" \in busy
    /\ ok => \A x \in ads.addresses : eps[x].there \/ eps[x].gen < MaxRows
    /\ IF ok THEN update(Self, ads.addresses)
       ELSE /\ ret' = [NoRet EXCEPT !.op = "update", !.arg = {Self},
                                    !.err = "logged"]
            /\ UNCHANGED <<rec, grade, eps>>
    /\ lock' = "free"
    /\ busy' = busy \ {"update"}
    /\ LET a == [ads EXCEPT
                    !.interval = setInterval(@, ok, ads.addresses),
                    !.loop = loopAfter(@, ok)]
       IN ads' = IF ads.stopping = "waitLoop"
                 THEN [a EXCEPT !.stopping = tryDemote(a)] ELSE a
    /\ fired' = <<>>
    /\ UNCHANGED <<service, proc>>

\* RegionAdvertisingService.stopService in this process: running is
\* cleared, and the rest waits for `starting` when that has not fired.
AdsStop ==
    /\ proc[Self] = "running"
    /\ ads.run
    /\ LET a == [ads EXCEPT !.run = FALSE,
                            !.early = (ads.starting # "done")]
       IN ads' = IF ads.starting # "done"
                 THEN [a EXCEPT !.stopping = "waitStart"]
                 ELSE stopAdvertising(a)
    /\ fired' = <<>>
    /\ ret' = NoRet
    /\ UNCHANGED <<service, proc, rec, grade, lock, busy, eps>>

\* A bug: the failure of demote is the failure of stopService.
demoteFailurePassedOn(err) == err

\* The errbacks of _tryDemote: ignoreCancellation and log.err consume the
\* failure of demote, and the Deferred of stopService fires with None.
demoteFailure(err) == "none"

\* demote of _tryDemote ends in its database thread, under the lock: the
\* row is deleted, or demote has raised (DoesNotExist without the row, or
\* the database has failed) and nothing is written.
DemoteDone(ok) ==
    /\ proc[Self] = "running"
    /\ ads.stopping = "demoting"
    /\ lock = "free"
    /\ LET r == demote(rec, Self)
           err == IF ok THEN r.err ELSE "Failure"
       IN /\ rec' = IF err = "ok" THEN r.rec ELSE rec
          /\ eps' = IF err = "ok" THEN cascade(eps, r.rec) ELSE eps
          /\ ads' = [ads EXCEPT
                        !.stopping = IF err = "ok" THEN "demoted" ELSE "done",
                        !.err = IF err = "ok" THEN @ ELSE demoteFailure(err)]
          /\ ret' = [NoRet EXCEPT !.op = "demote", !.arg = {Self}, !.err = err]
    /\ fired' = <<>>
    /\ UNCHANGED <<service, proc, grade, lock, busy>>

\* deferToDatabase(getRegionProcess) of initResponder or connectionLost,
\* once advertising holds a RegionAdvertising: a database thread enters
\* getRegionProcess, which takes no lock.
GetRegionProcessBegin ==
    /\ proc[Self] = "running"
    /\ ads.advertising = "set"
    /\ "getRegionProcess" \notin busy
    /\ busy' = busy \cup {"getRegionProcess"}
    /\ fired' = <<>>
    /\ ret' = NoRet
    /\ UNCHANGED <<service, proc, rec, grade, lock, ads, eps>>

\* getRegionProcess commits.
GetRegionProcessEnd ==
    /\ "getRegionProcess" \in busy
    /\ rec' = getRegionProcess(rec, Self)
    /\ busy' = busy \ {"getRegionProcess"}
    /\ fired' = <<>>
    /\ ret' = [NoRet EXCEPT !.op = "getRegionProcess", !.arg = {Self},
                            !.err = "ok"]
    /\ UNCHANGED <<service, proc, grade, lock, ads, eps>>

\* ------------------------------------------------- RegionService._bindFirst
\* A bug: the error of the first endpoint is the one raised.
bindFirstFirstError(b, res) ==
    LET index == Len(b.tried) + 1
        tried == Append(b.tried, <<res, endpoint_options[index]>>)
    IN IF res = "ok"
       THEN [b EXCEPT !.st = "bound", !.tried = tried,
                      !.port = endpoint_options[index]]
       ELSE IF index = Len(endpoint_options)
       THEN [b EXCEPT !.st = "failed", !.tried = tried, !.err = tried[1]]
       ELSE [b EXCEPT !.tried = tried]

\* One turn of the loop of RegionService._bindFirst: the endpoint at `index`
\* has listened (res is "ok") or has raised res. The port of the first
\* endpoint that listens is returned; an exception is swallowed unless the
\* endpoint was the last one.
bindFirst(b, res) ==
    LET index == Len(b.tried) + 1
        tried == Append(b.tried, <<res, endpoint_options[index]>>)
    IN IF res = "ok"
       THEN [b EXCEPT !.st = "bound", !.tried = tried,
                      !.port = endpoint_options[index]]
       ELSE IF index = Len(endpoint_options)
       THEN [b EXCEPT !.st = "failed", !.tried = tried, !.err = tried[index]]
       ELSE [b EXCEPT !.tried = tried]

\* `yield endpoint.listen(factory)` of _bindFirst returns or raises; when
\* _bindFirst is done _savePorts keeps the port or logs the failure.
Listen(res) ==
    /\ bind.st = "binding"
    /\ bind' = bindFirst(bind, res)
    /\ fired' = <<>>
    /\ ret' = NoRet
    /\ UNCHANGED <<running, svc, connections, waiters, wt, conn, regs, rows,
                 adv, lease>>

\* ----------------------------------------------------- Region.update_lease
\* A bug: the response does not wait for the task.
update_leaseAtOnce(l, p, n) ==
    [l EXCEPT !.sent = n, !.queue[p] = Append(@, n), !.replied = @ \cup {n}]

\* Region.update_lease in the regiond process p for the n-th update of the
\* rack controller: the update is handed to the database-tasks service with
\* deferTask, and the Deferred of the task is returned, so that nothing is
\* answered yet.
update_lease(l, p, n) ==
    [l EXCEPT !.sent = n, !.queue[p] = Append(@, n)]

\* The rack controller sends its next UpdateLease to the regiond process p.
\* It sends one at a time: the responses of the earlier ones have arrived.
SendLease(p) ==
    /\ lease.sent < MaxLeases
    /\ lease.replied = 1..lease.sent
    /\ lease' = update_lease(lease, p, lease.sent + 1)
    /\ fired' = <<>>
    /\ ret' = NoRet
    /\ UNCHANGED <<running, svc, connections, waiters, wt, conn, regs, rows,
                 adv, bind>>

\* The database-tasks service of the regiond process p runs the task at the
\* head of its queue, leases.update_lease: it commits (ok), raises
\* NoSuchCluster, which is passed to the rack controller, or raises
\* something else, which is logged. The Deferred of the task fires and the
\* response is returned.
LeaseTask(p, res) ==
    /\ lease.queue[p] # <<>>
    /\ LET n == Head(lease.queue[p])
       IN lease' = [lease EXCEPT
                       !.queue[p] = Tail(@),
                       !.applied = Append(@, [n |-> n, by |-> p, res |-> res]),
                       !.replied = @ \cup {n}]
    /\ fired' = <<>>
    /\ ret' = [NoRet EXCEPT !.op = "update_lease",
                            !.err = IF res = "NoSuchCluster" THEN res
                                    ELSE "ok"]
    /\ UNCHANGED <<running, svc, connections, waiters, wt, conn, regs, rows,
                 adv, bind>>

\* ---------------------------------------------------------- specifications
\* The registry and its waiters: connections come and go, rack controllers
\* register, callers wait for connections, time passes.
Next ==
    \/ StartService
    \/ \E c \in Conns : ConnectionMade(c, FALSE)
    \/ \E c \in Conns, sysid \in Idents : RegisterRequest(c, sysid)
    \/ \E c \in Conns, res \in {"ok", "nohost", "fail"} : RegisterDbDone(c, res)
    \/ \E c \in Conns : ConnectionLost(c)
    \/ \E i \in Idents, t \in Timeouts : GetClientFor(i, t)
    \/ \E t \in Timeouts : GetClientFromIdentifiers(Idents, t)
    \/ \E w \in Waiters : TimeoutFires(w)
    \/ \E w \in Waiters : CancelWaiter(w)
    \/ Tick

Spec == Init /\ [][Next]_vars

\* The life of the connections: handshake, registration with its database
\* mirroring for remote hosts, loss.
NextConn ==
    \/ StartService
    \/ \E c \in Conns, remote \in BOOLEAN : ConnectionMade(c, remote)
    \/ \E c \in Conns, peer \in Secrets, message \in Messages, salt \in Salts :
          HandshakeDone(c, peer, message, salt)
    \/ \E c \in Conns : HandshakeFailed(c)
    \/ \E c \in Conns, sysid \in Idents : RegisterRequest(c, sysid)
    \/ \E c \in Conns, res \in {"ok", "nohost", "fail"} : RegisterDbDone(c, res)
    \/ \E c \in Conns, ok \in BOOLEAN : MirrorDone(c, ok)
    \/ \E c \in Conns : ConnectionLost(c)
    \/ \E c \in Conns, ok \in BOOLEAN : UnregisterDone(c, ok)

SpecConn == Init /\ [][NextConn]_vars

\* The registry as the callers of getAllClients and getRandomClient see it.
NextQuery ==
    \/ StartService
    \/ \E c \in Conns : ConnectionMade(c, FALSE)
    \/ \E c \in Conns, sysid \in Idents : RegisterRequest(c, sysid)
    \/ \E c \in Conns, res \in {"ok", "nohost", "fail"} : RegisterDbDone(c, res)
    \/ \E c \in Conns : ConnectionLost(c)
    \/ \E i \in Idents : GetClientFor(i, 1)
    \/ \E w \in Waiters : TimeoutFires(w)
    \/ Tick
    \/ GetAllClients
    \/ GetRandomClient

SpecQuery == Init /\ [][NextQuery]_vars

\* The callers of getClientFromIdentifiers, each with its own identifiers.
NextAny ==
    \/ StartService
    \/ \E c \in Conns : ConnectionMade(c, FALSE)
    \/ \E c \in Conns, sysid \in Idents : RegisterRequest(c, sysid)
    \/ \E c \in Conns, res \in {"ok", "nohost", "fail"} : RegisterDbDone(c, res)
    \/ \E c \in Conns : ConnectionLost(c)
    \/ \E ids \in SUBSET Idents : GetClientFromIdentifiers(ids, 1)
    \/ \E w \in Waiters : TimeoutFires(w)
    \/ Tick

SpecAny == Init /\ [][NextAny]_vars

\* The service is stopped while a connection is registered and callers
\* wait, each for one tick of the clock.
NextStop ==
    \/ StartService
    \/ ConnectionMade(ConnSeq[1], FALSE)
    \/ \E c \in Conns, sysid \in Idents : RegisterRequest(c, sysid)
    \/ \E c \in Conns, res \in {"ok", "nohost", "fail"} : RegisterDbDone(c, res)
    \/ \E c \in Conns : ConnectionLost(c)
    \/ \E i \in Idents : GetClientFor(i, 1)
    \/ GetClientFromIdentifiers(Idents, 1)
    \/ \E w \in Waiters : TimeoutFires(w)
    \/ Tick
    \/ StopServiceBegin
    \/ StopListeningFailed
    \/ StopServiceFinish

SpecStop == Init /\ [][NextStop]_vars

\* The processes of the garbage collection: this one, a sibling, and one of
\* the other region controller.
ProcsGc == {"a1", "a2", "b1"}

\* The advertising as time passes: processes start, update, die.
NextGc ==
    \/ AdsStart
    \/ PromoteDone("ok", {})
    \/ \E p \in ProcsGc : Promote(p)
    \/ \E p \in ProcsGc : Kill(p)
    \/ \E p \in ProcsGc : Demote(p)
    \/ \E dt \in Elapse : Pass(dt)
    \/ \E p \in ProcsGc : PeerUpdate(p)
    \/ UpdateBegin({})
    \/ \E ok \in BOOLEAN : UpdateEnd(ok)
    \/ GetRegionProcessBegin
    \/ GetRegionProcessEnd

SpecGc == Init /\ [][NextGc]_vars

\* The status of the region controllers as their processes come and go.
NextGrade ==
    \/ AdsStart
    \/ PromoteDone("ok", {})
    \/ \E p \in Procs : Promote(p)
    \/ \E p \in Procs : Kill(p)
    \/ \E p \in Procs : Demote(p)
    \/ \E p \in Procs : PeerUpdate(p)
    \/ UpdateBegin({})
    \/ \E ok \in BOOLEAN : UpdateEnd(ok)

SpecGrade == Init /\ [][NextGrade]_vars

\* The RegionAdvertisingService of this process from startService to
\* stopService, with a process of the other region controller that collects
\* the rows this one leaves to grow old.
NextAds ==
    \/ AdsStart
    \/ \E res \in {"ok", "DoesNotExist", "fail"}, a \in SUBSET Addrs :
          PromoteDone(res, a)
    \/ PauseDone
    \/ \E a \in SUBSET Addrs : UpdateBegin(a)
    \/ AddressesFailed
    \/ \E ok \in BOOLEAN : UpdateEnd(ok)
    \/ AdsStop
    \/ \E ok \in BOOLEAN : DemoteDone(ok)
    \/ GetRegionProcessBegin
    \/ GetRegionProcessEnd
    \/ Promote("b1")
    \/ PeerUpdate("b1")
    \/ Pass(TTL)

SpecAds == Init /\ [][NextAds]_vars

\* The same, where every call that has been started ends.
SpecAdsFair ==
    /\ SpecAds
    /\ WF_vars(\E res \in {"ok", "DoesNotExist", "fail"}, a \in SUBSET Addrs :
                  PromoteDone(res, a))
    /\ WF_vars(PauseDone)
    /\ WF_vars(\E ok \in BOOLEAN : UpdateEnd(ok))
    /\ WF_vars(\E ok \in BOOLEAN : DemoteDone(ok))

\* startService binds the port of the RPC service.
NextBind ==
    \/ StartService
    \/ \E res \in {"ok"} \cup ListenErrors : Listen(res)

SpecBind == Init /\ [][NextBind]_vars

\* A rack controller sends its lease updates, one at a time, to the regiond
\* processes it is connected to.
NextLease ==
    \/ \E p \in LeaseProcs : SendLease(p)
    \/ \E p \in LeaseProcs, res \in {"ok", "NoSuchCluster", "fail"} :
          LeaseTask(p, res)

SpecLease == Init /\ [][NextLease]_vars

\* ------------------------------------------------------------------ claims
\* The step is RegionService._addConnectionFor(i, c), run by c's _register.
Registers(c, i) ==
    /\ conn[c].pc = "db"
    /\ conn'[c].pc # "db"
    /\ conn[c].arg = i
    /\ Len(fired') >= 1
    /\ fired'[1] = <<"connected", i>>

\* The identifiers under which the dict d holds x.
KeysOf(d, x) == {k \in DOMAIN d : x \in d[k]}

\* C1: when a connection c registers for an identifier while a waiter for
\* that identifier is pending, the waiter fires with c, by its first and
\* only callback; and a waiter that has fired or failed never changes again
\* (no later register, timeout or cancel resolves it a second time).
C1_RegisterResolvesPendingWaiterOnce ==
    [][
        /\ \A c \in Conns, i \in Idents :
            Registers(c, i) =>
                \A w \in Waiters :
                    (wt[w].st = "pending" /\ i \in wt[w].idents) =>
                        /\ wt'[w].st = "fired"
                        /\ wt'[w].result = c
                        /\ wt'[w].calls = 1
        /\ \A w \in Waiters :
            wt[w].st \in {"fired", "failed"} => wt'[w] = wt[w]
    ]_vars

\* C1 witness: a waiter fired before its timeout with c1, and c2 has now
\* registered for the same identifier without touching it.
C1_Witness ==
    \E w \in Waiters, i \in Idents :
        /\ wt[w].st = "fired"
        /\ wt[w].at = "early"
        /\ wt[w].result = "c1"
        /\ wt[w].calls = 1
        /\ fired = addEvents(i)
        /\ {"c1", "c2"} \subseteq DictGet(connections, i)

\* C2 as claimed: when a connection registers for an identifier with several
\* pending waiters, exactly one of them fires and the others stay pending.
C2_Original ==
    [][\A c \in Conns, i \in Idents :
        (Registers(c, i) /\ Cardinality(DictGet(waiters, i)) >= 2) =>
            Cardinality({w \in DictGet(waiters, i) : wt'[w].st = "fired"}) = 1]_vars

\* C2 as amended: when a connection c registers for an identifier, every
\* waiter pending for that identifier fires with c in that same call, and
\* none of them is left in the identifier's waiter set.
C2_RegisterResolvesAllWaiters ==
    [][\A c \in Conns, i \in Idents :
        Registers(c, i) =>
            /\ \A w \in DictGet(waiters, i) :
                    wt'[w].st = "fired" /\ wt'[w].result = c
            /\ DictGet(waiters', i) = {}]_vars

\* C2 witness: the one register call there has been fired both waiters with
\* the same connection.
C2_Witness ==
    /\ regs = 1
    /\ \E i \in Idents : fired = addEvents(i)
    /\ \A w \in Waiters : wt[w].st = "fired" /\ wt[w].result = "c1"

\* C3: a pending waiter fires only in a step that registers a connection for
\* one of its identifiers, and then with that connection; the delayed cancel
\* fails it when its timeout has elapsed and not before, and it is never
\* left pending past its timeout; whenever it fails, the caller gets
\* NoConnectionsAvailable and the waiter is in no identifier's waiter set.
C3_WaiterFailsAtTimeout ==
    [][\A w \in Waiters :
        wt[w].st = "pending" =>
            /\ (wt'[w].st = "fired") =>
                    (\E c \in Conns, i \in wt[w].idents :
                        Registers(c, i) /\ wt'[w].result = c)
            /\ (wt'[w].st = "failed" /\ wt'[w].cause = "timeout") =>
                    (wt[w].left = 0 /\ wt'[w].at = "due")
            /\ (wt'[w].st = "pending") => (wt'[w].left >= 0)
            /\ (wt'[w].st = "failed") =>
                    (/\ wt'[w].error = "NoConnectionsAvailable"
                     /\ KeysOf(waiters', w) = {})]_vars

\* C3 witness: no rack controller ever registered, and a waiter has failed
\* with NoConnectionsAvailable when its timeout had elapsed.
C3_Witness ==
    /\ regs = 0
    /\ \E w \in Waiters :
        /\ wt[w].st = "failed"
        /\ wt[w].cause = "timeout"
        /\ wt[w].at = "due"
        /\ wt[w].error = "NoConnectionsAvailable"
        /\ KeysOf(waiters, w) = {}

\* C4: every waiter in the waiter set of an identifier is pending and was
\* added under that identifier; so a waiter that has fired, timed out or
\* been cancelled is in no identifier's waiter set.
C4_WaiterSetsHoldPendingWaiters ==
    \A k \in DOMAIN waiters :
        \A w \in waiters[k] : wt[w].st = "pending" /\ k \in wt[w].idents

\* C4 witness: the only waiter there has been was added under both
\* identifiers (getClientFromIdentifiers), is resolved, and both waiter sets
\* are empty.
C4_Witness ==
    /\ wt[1].st \in {"fired", "failed"}
    /\ wt[2].st = "unused"
    /\ DOMAIN waiters = Idents
    /\ \A k \in DOMAIN waiters : waiters[k] = {}

\* C5 as claimed: a session is in the set of at most one identifier, and a
\* session whose connection is lost is in the set of none.
C5_Original ==
    \A c \in Conns :
        /\ Cardinality(KeysOf(connections, c)) <= 1
        /\ conn[c].st = "closed" => KeysOf(connections, c) = {}

\* C6 as claimed: _removeConnectionFor called twice for the same identifier
\* and connection leaves the connections and the notifications fired as one
\* call does, and called for a connection that is not there it changes
\* nothing and fires nothing.
C6_Original ==
    \A i \in IdentKeys, c \in Conns :
        LET once == removeConnectionFor(connections, i, c)
            ev1 == removeEvents(connections, i, c)
            twice == removeConnectionFor(once, i, c)
            ev2 == ev1 \o removeEvents(once, i, c)
        IN /\ twice = once
           /\ ev2 = ev1
           /\ c \notin DictGet(connections, i) =>
                   (once = connections /\ ev1 = <<>>)

\* C7 as claimed: when no identifier has a connection, getRandomClient
\* raises NoConnectionsAvailable and nothing else.
C7_Original ==
    (ret.op = "getRandom" /\ AllSessions(connections) = {}) =>
        ret.err = "NoConnectionsAvailable"

\* C8 as claimed: when some identifier has a connection, getRandomClient
\* returns a connection that is in the set of some identifier.
C8_Original ==
    (ret.op = "getRandom" /\ AllSessions(connections) # {}) =>
        (ret.err = "ok" /\ ret.val \in AllSessions(connections))

\* What C9 asks of a result of getAllClients.
OnePerIdentifier(r) ==
    /\ r.err = "ok"
    /\ DOMAIN r.all = {k \in DOMAIN connections : connections[k] # {}}
    /\ \A k \in DOMAIN r.all : r.all[k] \in connections[k]

\* C9: getAllClients returns at once, with exactly one connection for each
\* identifier that has connections, taken from that identifier's set, and
\* with nothing for an identifier whose set is empty.
C9_GetAllOnePerIdentifier ==
    /\ \A r \in getAllClients(connections) : OnePerIdentifier(r)
    /\ ret.op = "getAll" => OnePerIdentifier(ret)

\* C9 witness: getAllClients has returned a connection while the registry
\* knows an identifier without connections.
C9_Witness ==
    /\ ret.op = "getAll"
    /\ DOMAIN ret.all # {}
    /\ \E k \in DOMAIN connections : connections[k] = {}

\* The step ends c's database mirroring (advertising.get, getRegionProcess,
\* registerConnection), with or without an error.
MirrorEnds(c) == conn[c].pc = "mirror" /\ conn'[c].pc = "none"

\* C10 as claimed: whatever the outcome of the mirroring step, a session
\* that is registered stays registered.
C10_Original ==
    [][\A c \in Conns :
        (MirrorEnds(c) /\ c \in DictGet(connections, conn[c].ident)) =>
            c \in DictGet(connections', conn[c].ident)]_vars

\* C10 as amended: when the mirroring step fails, _register removes the
\* session from the set of its identifier, fires "disconnected" and
\* answers CannotRegisterRackController; only when it succeeds is the
\* registry left as it was.
C10_MirrorFailureUnregisters ==
    [][\A c \in Conns :
        MirrorEnds(c) =>
            IF ret'.err = "ok"
            THEN connections' = connections /\ fired' = <<>>
            ELSE /\ ret'.err = "CannotRegisterRackController"
                 /\ c \notin DictGet(connections', conn[c].ident)
                 /\ fired' = << <<"disconnected", conn[c].ident>> >>]_vars

\* C10 witness: the only register request there has been got as far as
\* initResponder on a remote host, was answered
\* CannotRegisterRackController, and its open session is in no set.
C10_Witness ==
    /\ regs = 1
    /\ ret.op = "register"
    /\ ret.err = "CannotRegisterRackController"
    /\ \E c \in Conns :
        /\ ret.val = c
        /\ conn[c].st = "open"
        /\ conn[c].ident # None
        /\ conn[c].hostIsRemote
        /\ KeysOf(connections, c) = {}

\* The step is c's RegionServer.connectionLost.
Lost(c) == conn[c].st \in {"open", "closing"} /\ conn'[c].st = "closed"

\* The sessions a result of getAllClients holds.
Returned(r) == {r.all[k] : k \in DOMAIN r.all}

\* C11: connectionLost removes the session from the set of its identifier
\* whatever happens to the database row, and for a remote host it starts
\* the removal of the row; when that removal fails the failure is logged by
\* the chain's errback and goes no further, and the session stays removed
\* from the registry.
C11_DisconnectReversesBoth ==
    [][\A c \in Conns :
        /\ Lost(c) =>
                /\ c \notin DictGet(connections', conn[c].ident)
                /\ conn[c].hostIsRemote => conn'[c].unreg = "pending"
                /\ ret' = NoRet
        /\ (conn[c].unreg = "pending" /\ conn'[c].unreg = "logged") =>
                /\ connections' = connections
                /\ c \notin DictGet(connections', conn[c].ident)
                /\ conn'[c].st = "closed"
                /\ fired' = <<>>
                /\ ret'.err = "logged"]_vars

\* C11 witness: the removal of the row of a lost session failed and was
\* logged; the row is still there and the session is in no set.
C11_Witness ==
    \E c \in Conns :
        /\ conn[c].st = "closed"
        /\ conn[c].unreg = "logged"
        /\ conn[c].ident \in rows
        /\ KeysOf(connections, c) = {}

C13_Original ==
    \A c \in Conns :
        conn[c].auth = "failed" =>
            /\ KeysOf(connections, c) = {}
            /\ conn[c].ident \in rows =>
                    DictGet(connections, conn[c].ident) \ {c} # {}

\* C14 as claimed: a session is added to the connections only after
\* authenticateCluster has returned true for it.
C14_Original ==
    [][\A c \in Conns :
        (conn[c].auth # "ok" /\ c \in AllSessions(connections')) =>
            c \in AllSessions(connections)]_vars

\* The step is the end of RegionService.stopService.
StopEnds == svc = "stopping" /\ svc' # "stopping"

\* C15: when stopService cancels the waiters, every waiter that is pending
\* fails at once with NoConnectionsAvailable, however much of its timeout
\* is left, and no waiter is left in the waiter set of any identifier.
C15_StopCancelsWaiters ==
    [][(svc = "stopping" /\ svc' = "stopped") =>
        /\ \A w \in Waiters :
            wt[w].st = "pending" =>
                /\ wt'[w].st = "failed"
                /\ wt'[w].error = "NoConnectionsAvailable"
                /\ wt'[w].cause = "stop"
                /\ wt'[w].at = When(wt[w])
                /\ wt'[w].calls = 1
        /\ \A k \in DOMAIN waiters' : waiters'[k] = {}]_vars

\* C15 witness: the service has stopped, and both waiters, pending under
\* different identifiers, were failed by it before their timeouts.
C15_Witness ==
    /\ svc = "stopped"
    /\ \A w \in Waiters :
        /\ wt[w].cause = "stop"
        /\ wt[w].at = "early"
        /\ wt[w].error = "NoConnectionsAvailable"
        /\ KeysOf(waiters, w) = {}
    /\ \A k \in Idents : k \in DOMAIN waiters

\* C16 as claimed: however the steps of stopService fare, when it ends no
\* waiter is pending, no registered session is open, and the service is
\* marked stopped.
C16_Original ==
    [][StopEnds =>
        /\ \A w \in Waiters : wt'[w].st # "pending"
        /\ \A c \in AllSessions(connections') : conn'[c].st # "open"
        /\ running' = FALSE
        /\ svc' = "stopped"]_vars

\* C17 as claimed: in this process, no two database calls that write
\* RegionControllerProcess rows run at the same time.
C17_Original == Cardinality(busy) <= 1

\* The step is a successful update run by the process q.
Updates(q) == ret'.op = "update" /\ ret'.arg = {q} /\ ret'.err = "ok"

\* C18 as claimed: an update run by any process deletes every row that is
\* older than the TTL.
C18_Original ==
    [][\A q \in Procs :
        Updates(q) =>
            \A p \in Procs :
                (rec[p].there /\ rec[p].age > TTL) => ~rec'[p].there]_vars

\* C18 as amended: an update run by any process deletes every row of
\* another process, of whichever region controller, that is as old as the
\* TTL or older; the row of the process that runs the update is refreshed,
\* or created again, however old it was; and a younger row of another
\* region controller is left as it is.
C18_UpdateRemovesOldRows ==
    [][\A q \in Procs :
        Updates(q) =>
            /\ rec'[q].there
            /\ rec'[q].age = 0
            /\ \A p \in Procs \ {q} :
                /\ (rec[p].there /\ rec[p].age >= TTL) => ~rec'[p].there
                /\ (rec[p].age < TTL /\ RegionOf(p) # RegionOf(q)) =>
                        rec'[p] = rec[p]]_vars

\* C18 witness: an update has just deleted, for its age, the row of a
\* running process of the other region controller.
C18_Witness ==
    /\ ret.op = "update"
    /\ ret.err = "ok"
    /\ \E q \in Procs, p \in DOMAIN ret.all :
        /\ ret.arg = {q}
        /\ RegionOf(p) # RegionOf(q)
        /\ ret.all[p] = "ttl"
        /\ proc[p] = "running"
        /\ ~rec[p].there

\* C19: an update deletes the row of every other process of its own region
\* controller whose pid is not running, whatever the age of the row.
C19_UpdateRemovesDeadSiblings ==
    [][\A q \in Procs :
        Updates(q) =>
            \A p \in Procs \ {q} :
                (/\ rec[p].there
                 /\ RegionOf(p) = RegionOf(q)
                 /\ proc[p] # "running") => ~rec'[p].there]_vars

\* C19 witness: an update has just deleted the row, younger than the TTL,
\* of a sibling that is dead.
C19_Witness ==
    /\ ret.op = "update"
    /\ ret.err = "ok"
    /\ \E q \in Procs, p \in DOMAIN ret.all :
        /\ ret.arg = {q}
        /\ RegionOf(p) = RegionOf(q)
        /\ ret.all[p] = "pid"
        /\ proc[p] = "dead"
        /\ ~rec[p].there

\* What C20 asks of the status stored for a region controller with n rows.
Reflects(g, n) ==
    /\ n >= NUMBER_OF_REGIOND_PROCESSES => g.status = "running"
    /\ (0 < n /\ n < NUMBER_OF_REGIOND_PROCESSES) =>
            (/\ g.status = "degraded"
             /\ g.n = n
             /\ g.of = NUMBER_OF_REGIOND_PROCESSES)
    /\ n = 0 => g.status = "dead"

\* C20 as claimed: after an update the status stored for each region
\* controller reflects the number of rows there are for it.
C20_Original ==
    [][\A q \in Procs :
        Updates(q) =>
            \A r \in Regions :
                Reflects(grade'[r], number_of_processes(rec', r))]_vars

\* C20 as amended: after an update the status stored for the region
\* controller of the process that ran it reflects the number of rows there
\* are for it, which is never zero; another region controller is marked
\* dead when it has no row, and its status is left as it was otherwise.
C20_UpdateGradesOwnRegion ==
    [][\A q \in Procs :
        Updates(q) =>
            \A r \in Regions :
                LET n == number_of_processes(rec', r)
                IN IF r = RegionOf(q)
                   THEN n > 0 /\ Reflects(grade'[r], n)
                   ELSE IF n = 0 THEN grade'[r].status = "dead"
                   ELSE grade'[r] = grade[r]]_vars

\* C20 witness: an update has found four rows for its region controller,
\* which is running, and none for the other, whose process has stopped and
\* which is dead.
C20_Witness ==
    /\ ret.op = "update"
    /\ ret.err = "ok"
    /\ number_of_processes(rec, "A") = NUMBER_OF_REGIOND_PROCESSES
    /\ grade["A"].status = "running"
    /\ number_of_processes(rec, "B") = 0
    /\ grade["B"].status = "dead"
    /\ proc["b1"] = "dead"

\* C21: when an update run by a process has committed, every region
\* controller other than its own that has no RegionControllerProcess row
\* left, the rows this update has deleted counted out, has its regiond
\* service marked dead.
C21_UpdateMarksEmptyRegionsDead ==
    [][\A q \in Procs :
        Updates(q) =>
            \A r \in Regions \ {RegionOf(q)} :
                number_of_processes(rec', r) = 0 =>
                    grade'[r].status = "dead"]_vars

\* C21 witness: an update has just deleted, for its age, the last row of
\* the other region controller, which was not dead before and is now.
C21_Witness ==
    /\ ret.op = "update"
    /\ ret.err = "ok"
    /\ \E q \in Procs, p \in DOMAIN ret.all :
        /\ ret.arg = {q}
        /\ RegionOf(p) # RegionOf(q)
        /\ ret.all[p] = "ttl"
        /\ number_of_processes(rec, RegionOf(p)) = 0
        /\ grade[RegionOf(p)].status = "dead"
        /\ grade[RegionOf(q)].status = "degraded"

\* C22 as claimed: demote succeeds when the row of the process is not
\* there, and leaves the rows as they were.
C22_Original ==
    [][\A p \in Procs :
        (ret'.op = "demote" /\ ret'.arg = {p} /\ ~rec[p].there) =>
            (ret'.err = "ok" /\ rec' = rec)]_vars

\* C23 as claimed: when stopService is called before promote has worked,
\* the LoopingCall is never started, this process has no
\* RegionControllerProcess row, demote is not deferred to the database, and
\* nothing is raised.
C23_Original ==
    ads.early =>
        /\ ads.loop = "idle"
        /\ ~rec[Self].there
        /\ ads.stopping \notin {"demoting", "demoted"}
        /\ ads.err = "none"

\* C24 as claimed: demote runs only when no update is in flight, and once
\* it has deleted the row of this process the LoopingCall stays stopped and
\* the row stays deleted.
C24_Original ==
    /\ ads.stopping = "demoting" => "update" \notin busy
    /\ ads.stopping = "demoted" => (ads.loop = "stopped" /\ ~rec[Self].there)

\* The step is an update of this process that fails and is logged.
UpdateFails == ret'.op = "update" /\ ret'.arg = {Self} /\ ret'.err = "logged"

\* C25: when an update of this process fails, in update or in _getAddresses,
\* nothing is raised, the LoopingCall keeps the interval it had and goes on
\* unless stopService has stopped it, and a LoopingCall that goes on can
\* make its next call.
C25_FailedUpdateIsSwallowed ==
    /\ [][UpdateFails =>
            /\ ads'.interval = ads.interval
            /\ ads'.err = ads.err
            /\ ads'.loop = IF ads.loop = "stopping" THEN "stopped"
                           ELSE "waiting"]_vars
    /\ [](ads.loop = "waiting" => ENABLED UpdateBegin({}))

\* C25 witness: an update deferred to the database has failed; the
\* LoopingCall, whose interval was INTERVAL_WITH_ENDPOINTS, waits for its
\* next call with that interval.
C25_Witness ==
    /\ ret.op = "update"
    /\ ret.err = "logged"
    /\ ads.addresses = {}
    /\ ads.interval = INTERVAL_WITH_ENDPOINTS
    /\ ads.loop = "waiting"
    /\ ads.run

\* C26: stopService raises nothing, and once called it completes: after
\* `starting` has fired, the update in flight has ended and demote, when
\* there is one, has ended, whether it failed or not.
C26_StopCompletes ==
    /\ [](ads.err = "none")
    /\ (ads.stopping # "none") ~> (ads.stopping \in {"done", "demoted"})

\* C26 witness: stopService has completed after demote failed.
C26_Witness ==
    /\ ads.stopping = "done"
    /\ ret.op = "demote"
    /\ ret.err \in {"Failure", "DoesNotExist"}
    /\ ads.err = "none"

\* C27: after an update of this process with a set of addresses, the
\* endpoint rows of the process are those of the addresses: a row that was
\* there for one of the addresses is the same row, a row is created for the
\* addresses that had none, and every other row is deleted.
C27_UpdateReplacesEndpoints ==
    [][Updates(Self) =>
        /\ Endpoints(eps') = ads.addresses
        /\ \A x \in ads.addresses :
            IF eps[x].there THEN eps'[x] = eps[x]
            ELSE eps'[x].gen = eps[x].gen + 1]_vars

\* C27 witness: an update of this process with one address has left the
\* row of that address, the first made for it, and no row for the other
\* address, which has had one.
C27_Witness ==
    /\ ret.op = "update"
    /\ ret.arg = {Self}
    /\ ret.err = "ok"
    /\ ads.addresses = {"addr1"}
    /\ eps["addr1"] = [there |-> TRUE, gen |-> 1]
    /\ eps["addr2"] = [there |-> FALSE, gen |-> 1]

\* C28: the LoopingCall is started with INTERVAL_NO_ENDPOINTS, and after an
\* update of this process its interval is INTERVAL_NO_ENDPOINTS when the
\* set of addresses was empty and INTERVAL_WITH_ENDPOINTS when it was not.
C28_IntervalFollowsAddresses ==
    [][/\ (ads.loop = "idle" /\ ads'.loop # "idle") =>
            ads'.interval = INTERVAL_NO_ENDPOINTS
       /\ Updates(Self) =>
            ads'.interval = IF ads.addresses = {}
                            THEN INTERVAL_NO_ENDPOINTS
                            ELSE INTERVAL_WITH_ENDPOINTS]_vars

\* C28 witness: an update of this process with an address has set the
\* interval to INTERVAL_WITH_ENDPOINTS.
C28_Witness ==
    /\ ret.op = "update"
    /\ ret.arg = {Self}
    /\ ret.err = "ok"
    /\ ads.addresses # {}
    /\ ads.interval = INTERVAL_WITH_ENDPOINTS
    /\ ads.loop = "waiting"

\* The lease updates that have been handled, in the order they were.
Handled == [k \in 1..Len(lease.applied) |-> lease.applied[k].n]

\* C29: the lease updates a rack controller sends one at a time are handled
\* in the order they were sent, whichever regiond process receives each,
\* and the response of an update is returned only when the update has been
\* handled.
C29_LeasesHandledInOrder ==
    /\ \A i, j \in 1..Len(Handled) : i < j => Handled[i] < Handled[j]
    /\ \A n \in lease.replied : \E k \in 1..Len(Handled) : Handled[k] = n

\* C29 witness: two updates were handled by different regiond processes,
\* the first of which failed and was logged.
C29_Witness ==
    /\ Len(lease.applied) >= 2
    /\ lease.applied[1].by # lease.applied[2].by
    /\ lease.applied[1].res = "fail"
    /\ lease.replied = {1, 2}

\* C30: _bindFirst listens on the endpoints in their order and on none
\* after the first that listens, whose port it returns; when none listens
\* it raises what the last endpoint raised.
C30_BindFirstKeepsFirstSuccess ==
    LET n == Len(bind.tried)
    IN /\ \A k \in 1..n : bind.tried[k][2] = endpoint_options[k]
       /\ \A k \in 1..(n - 1) : bind.tried[k][1] # "ok"
       /\ bind.st = "binding" =>
            (n < Len(endpoint_options) /\ (n > 0 => bind.tried[n][1] # "ok"))
       /\ bind.st = "bound" =>
            (/\ n > 0
             /\ bind.tried[n][1] = "ok"
             /\ bind.port = endpoint_options[n])
       /\ bind.st = "failed" =>
            (/\ n = Len(endpoint_options)
             /\ bind.tried[n][1] # "ok"
             /\ bind.err = bind.tried[n])

\* C30 witness: no endpoint has listened, and the error raised is not the
\* one the first endpoint raised.
C30_Witness ==
    /\ bind.st = "failed"
    /\ bind.err[1] # bind.tried[1][1]
    /\ bind.err[2] = END_PORT - 1

\* The identifiers of ids that have a connection.
Satisfied(ids) == {i \in ids : DictGet(connections, i) # {}}

\* C31: getClientFromIdentifiers returns at once, without a new waiter,
\* when one of its identifiers has a connection: the connection of the
\* Client is one of the list built, which has one connection for each of
\* the identifiers that have some, taken from that identifier's set. When
\* none has a connection a waiter is returned that waits under each of the
\* identifiers, and the first register for one of them fires it with the
\* connection registered and takes it out of every set.
C31_GetAnyOnePerIdentifier ==
    [][/\ \A ids \in SUBSET Idents :
            (ret'.op = "getAny" /\ ret'.arg = ids) =>
                IF Satisfied(ids) # {}
                THEN /\ ret'.err = "ok"
                     /\ wt' = wt
                     /\ \A k \in IdentKeys :
                            DictGet(waiters', k) = DictGet(waiters, k)
                     /\ DOMAIN ret'.all = Satisfied(ids)
                     /\ \A i \in Satisfied(ids) :
                            ret'.all[i] \in connections[i]
                     /\ \E i \in Satisfied(ids) : ret'.val = ret'.all[i]
                ELSE /\ ret'.err = "waiting"
                     /\ wt[ret'.w].st = "unused"
                     /\ wt'[ret'.w].st = "pending"
                     /\ \A i \in IdentKeys :
                            ret'.w \in DictGet(waiters', i) <=> i \in ids
       /\ \A c \in Conns, i \in Idents, w \in Waiters :
            (Registers(c, i) /\ wt[w].st = "pending" /\ i \in wt[w].idents) =>
                /\ wt'[w].st = "fired"
                /\ wt'[w].result = c
                /\ \A k \in IdentKeys : w \notin DictGet(waiters', k)]_vars

\* C31 witness: getClientFromIdentifiers was asked for one identifier and
\* has returned its connection while the other identifier has another.
C31_Witness ==
    /\ ret.op = "getAny"
    /\ ret.err = "ok"
    /\ ret.arg = {"r1"}
    /\ DOMAIN ret.all = {"r1"}
    /\ ret.val \in connections["r1"]
    /\ \E c \in DictGet(connections, "r2") : c \notin connections["r1"]

\* C32: getClientFor for an identifier that has connections returns at
\* once, without a new waiter, a Client of one of the connections of the
\* identifier, and each of them can be the one returned.
C32_GetReturnsAnyRegistered ==
    /\ [][\A i \in Idents :
            (ret'.op = "get" /\ ret'.arg = {i} /\ DictGet(connections, i) # {}) =>
                /\ ret'.err = "ok"
                /\ ret'.val \in connections[i]
                /\ wt' = wt
                /\ \A k \in IdentKeys :
                       DictGet(waiters', k) = DictGet(waiters, k)]_vars
    /\ [](\A i \in Idents : \A c \in DictGet(connections, i) :
            ENABLED (GetClientFor(i, 1) /\ ret'.val = c))

\* C32 witness: two connections are registered for an identifier and
\* getClientFor has returned the second.
C32_Witness ==
    /\ ret.op = "get"
    /\ ret.err = "ok"
    /\ \E i \in Idents :
        /\ ret.arg = {i}
        /\ connections[i] = Conns
        /\ ret.val = ConnSeq[2]

\* C33 as claimed: once a RegionServer has an ident it keeps it.
C33_Original ==
    [][\A c \in Conns :
        conn[c].ident # None => conn'[c].ident = conn[c].ident]_vars

\* C34: authenticateCluster returns true when the peer made its digest with
\* the shared secret of this process and false when it made it with
\* another, whatever the message and the salt drawn; the handshake is
\* passed or the transport closed accordingly.
C34_DigestRoundTrips ==
    /\ [][ret'.op = "authenticateCluster" =>
            /\ ret'.err = "ok" <=> ret'.arg = {SharedSecret}
            /\ conn'[ret'.val].auth =
                   IF ret'.arg = {SharedSecret} THEN "ok" ELSE "failed"]_vars
    /\ [](\A peer \in Secrets, message \in Messages, salt \in Salts :
            authenticateCluster(SharedSecret, message,
                                authenticate(peer, message, salt))
                <=> peer = SharedSecret)

\* C34 witness: one peer has passed the handshake, and the handshake of a
\* peer with another secret has just been rejected.
C34_Witness ==
    /\ ret.op = "authenticateCluster"
    /\ ret.err = "rejected"
    /\ ret.arg # {SharedSecret}
    /\ conn[ret.val].auth = "failed"
    /\ conn[ret.val].st = "closing"
    /\ \E c \in Conns : conn[c].auth = "ok"

\* A connection made while the service did not run: its transport was
\* closed and no handshake was started.
Refused(c) == conn[c].st # "new" /\ conn[c].auth = "none"

\* C40: a connection made while the RegionService does not run has its
\* transport closed at once and no handshake started, and its Session is
\* never in the registry: it has no registration in progress, no ident,
\* and is in no identifier's set.
C40_RefusedWhenNotRunning ==
    /\ [][\A c \in Conns :
            (conn[c].st = "new" /\ conn'[c].st # "new" /\ ~running) =>
                /\ conn'[c].st = "closing"
                /\ conn'[c].auth = "none"
                /\ connections' = connections
                /\ fired' = <<>>]_vars
    /\ [](\A c \in Conns :
            Refused(c) =>
                /\ conn[c].st \in {"closing", "closed"}
                /\ conn[c].pc = "none"
                /\ conn[c].ident = None
                /\ c \notin AllSessions(connections))

\* C40 witness: a connection that came in while the service did not run
\* was refused and its loss has been handled; the service has been started
\* and stopped.
C40_Witness ==
    /\ svc = "stopped"
    /\ ~running
    /\ \E c \in Conns : Refused(c) /\ conn[c].st = "closed"

\* C38 as claimed: a "disconnected" event is fired for an identifier only
\* when a Session was registered for it, in the registry before the step
\* or by a "connected" event fired earlier in the same step; none is fired
\* for the ident None of a connection that never registered.
C38_Original ==
    [][\A n \in 1..Len(fired') :
        fired'[n][1] = "disconnected" =>
            /\ fired'[n][2] # None
            /\ \/ DictGet(connections, fired'[n][2]) # {}
               \/ \E m \in 1..(n - 1) :
                     fired'[m] = <<"connected", fired'[n][2]>>]_vars

\* C39 as claimed: when the registration of a Session with a remote host
\* is answered without error, the Session is in the registry under its
\* ident and the row of its rack controller is there.
C39_Original ==
    [][\A c \in Conns :
        (/\ ret'.op = "register"
         /\ ret'.val = c
         /\ ret'.err = "ok"
         /\ conn'[c].hostIsRemote) =>
            /\ c \in DictGet(connections', conn'[c].ident)
            /\ conn'[c].ident \in rows']_vars

\* C36: an update run by the process q deletes for its pid only rows of
\* other processes of q's own region controller, whose pid is not running;
\* a row of another region controller that is younger than the TTL is
\* left as it is, whether its process runs or not; and the row of q is
\* there afterwards and is not among the rows deleted.
C36_PidProbeOnlySiblings ==
    [][\A q \in Procs :
        Updates(q) =>
            /\ \A p \in DOMAIN ret'.all :
                  ret'.all[p] = "pid" =>
                      /\ RegionOf(p) = RegionOf(q)
                      /\ p # q
                      /\ proc[p] # "running"
            /\ \A p \in Procs :
                  (RegionOf(p) # RegionOf(q) /\ rec[p].there /\ rec[p].age < TTL)
                      => rec'[p] = rec[p]
            /\ rec'[q].there
            /\ q \notin DOMAIN ret'.all]_vars

\* C36 witness: the update of a1 has deleted the row of its sibling a2, whose
\* pid was not running, while the young row of b1, of the other region
\* controller and not running either, is still there.
C36_Witness ==
    /\ ret.op = "update"
    /\ ret.arg = {"a1"}
    /\ "a2" \in DOMAIN ret.all
    /\ ret.all["a2"] = "pid"
    /\ proc["b1"] # "running"
    /\ rec["b1"].there
    /\ rec["b1"].age < TTL

C37_OwnRowKeptWithId ==
    /\ [][\A q \in Procs :
            Updates(q) =>
                /\ rec'[q] = [there |-> TRUE, age |-> 0, id |-> process_id(q)]
                /\ q \notin DOMAIN ret'.all
                /\ rec[q].there => rec'[q].id = rec[q].id]_vars
    /\ [](\A p \in Procs : rec[p].there => rec[p].id = process_id(p))

\* C37 witness: the update of this process has created its row again, with
\* its id, after another process had deleted it.
C37_Witness ==
    /\ ret.op = "update"
    /\ ret.arg = {Self}
    /\ ret.err = "ok"
    /\ ret.val = "created"
    /\ rec[Self] = [there |-> TRUE, age |-> 0, id |-> process_id(Self)]

====
